---- MODULE Spec2Model ----
(***************************************************************************)
(* generate_cookiecutter.py: the exclusion test, the path rewriter, the     *)
(* content transformer, the tree copy and main().                           *)
(*                                                                          *)
(* Strings are TLA+ strings (Len, SubSeq and \o act on them character by    *)
(* character).  A path is the sequence of its segments (pathlib's           *)
(* Path.parts), relative to SOURCE_DIR = Path(".").                         *)
(***************************************************************************)
EXTENDS Integers, Sequences, FiniteSets, TLC

VARIABLES fs, pc, stack, origin, src0, arg, ret

vars == <<fs, pc, stack, origin, src0, arg, ret>>

(***************************************************************************)
(* Bounds of the checked instances.                                         *)
(***************************************************************************)
\* longest relative path handed to should_exclude / get_template_path alone
MaxDepth == 3
\* number of leaf entries of a source tree
MaxEntries == 2
\* number of text fragments a file content is made of
MaxFrags == 2

(***************************************************************************)
(* str operations                                                           *)
(***************************************************************************)
CharAt(s, i) == SubSeq(s, i, i)

\* s[i:i+len(p)] == p
MatchAt(s, i, p) == i + Len(p) - 1 <= Len(s) /\ SubSeq(s, i, i + Len(p) - 1) = p

\* Python's  p in s  on strings
Contains(p, s) == \E i \in 1..(Len(s) + 1) : MatchAt(s, i, p)

\* str.endswith
EndsWith(s, suf) == Len(suf) <= Len(s) /\ SubSeq(s, Len(s) - Len(suf) + 1, Len(s)) = suf

SetMin(S) == CHOOSE x \in S : \A y \in S : x <= y

RECURSIVE JoinFrom(_, _)
JoinFrom(parts, k) ==
    IF k > Len(parts) THEN ""
    ELSE IF k = Len(parts) THEN parts[k]
    ELSE parts[k] \o "/" \o JoinFrom(parts, k + 1)

\* str(path) of a relative path
PathStr(parts) == JoinFrom(parts, 1)

(***************************************************************************)
(* Configuration                                                            *)
(***************************************************************************)
OUTPUT_DIR == <<"cookiecutter-output">>

TEMPLATE_ROOT == OUTPUT_DIR \o <<"{{cookiecutter.project_slug}}">>

EXCLUDE_PATTERNS ==
    { ".git", ".gitignore", "__pycache__", ".pytest_cache", ".mypy_cache",
      ".venv", "venv", "poetry.lock", "mypy.ini", "cookiecutter-output",
      "generate_cookiecutter.py", "COOKIECUTTER_README.md", ".ruff_cache",
      ".vscode", ".idea", "*.pyc", "*.pyo", "*.pyd", ".Python", "pip-log.txt",
      "pip-delete-this-directory.txt", ".coverage", "htmlcov", ".tox",
      ".DS_Store", ".approval_tests_temp", ".approval_tests_cache",
      "approved_files", "received_files" }

DIRECTORY_RENAMES ==
    [ k \in {"template_core", "template_tools"} |->
        IF k = "template_core" THEN "{{cookiecutter.project_slug}}_core"
        ELSE "{{cookiecutter.project_slug}}_tools" ]

RECURSIVE ReplaceFrom(_, _, _, _)
ReplaceFrom(s, old, new, from) ==
    LET M == {i \in from..Len(s) : MatchAt(s, i, old)} IN
    IF M = {} THEN SubSeq(s, from, Len(s))
    ELSE SubSeq(s, from, SetMin(M) - 1) \o new \o ReplaceFrom(s, old, new, SetMin(M) + Len(old))

\* str.replace(old, new), old not empty
str_replace_all(s, old, new) == ReplaceFrom(s, old, new, 1)

(***************************************************************************)
(* should_exclude(path).  kind is what the file system says of the path:    *)
(* "file", "dir", or "none" when nothing is there.                          *)
(***************************************************************************)
Name(parts) == parts[Len(parts)]

InParts(seg, parts) == \E i \in 1..Len(parts) : parts[i] = seg

\* path.parts.index(seg)
IndexOf(seg, parts) == SetMin({i \in 1..Len(parts) : parts[i] = seg})

\* PurePath.match(pattern) for a one-segment pattern "*<suffix>": fnmatch of
\* the final segment, where * matches any run of characters
PathMatch(parts, pattern) ==
    /\ CharAt(pattern, 1) = "*"
    /\ EndsWith(Name(parts), SubSeq(pattern, 2, Len(pattern)))

PatternExcludes(pattern, parts) ==
    /\ pattern # ".git"
    /\ \/ Contains(pattern, PathStr(parts))
       \/ Name(parts) = pattern
       \/ Contains("*", pattern) /\ PathMatch(parts, pattern)

should_exclude(parts, kind) ==
    IF Name(parts) = ".git" /\ kind = "dir" THEN TRUE
    ELSE IF InParts(".git", parts) /\ IndexOf(".git", parts) < Len(parts) THEN TRUE
    ELSE IF InParts("scratchpads", parts) /\ kind = "file"
         THEN Name(parts) # ".gitignore"
    ELSE \E pattern \in EXCLUDE_PATTERNS : PatternExcludes(pattern, parts)

(***************************************************************************)
(* get_template_path(source_path)                                           *)
(***************************************************************************)
\* RenamePart with the table applied to the text of the segment (str.replace)
\* instead of looked up by the whole segment
RenamePartSubstring(part) ==
    str_replace_all(str_replace_all(part, "template_core", "{{cookiecutter.project_slug}}_core"),
                    "template_tools", "{{cookiecutter.project_slug}}_tools")

RenamePart(part) ==
    IF part \in DOMAIN DIRECTORY_RENAMES THEN DIRECTORY_RENAMES[part] ELSE part

get_template_path(parts) ==
    LET new_parts == [i \in 1..Len(parts) |-> RenamePart(parts[i])]
    IN  IF Len(new_parts) > 0 THEN TEMPLATE_ROOT \o new_parts ELSE TEMPLATE_ROOT

(***************************************************************************)
(* re.sub(pattern, repl, content) for the patterns the script uses.  A      *)
(* pattern is a sequence of elements: a literal run of characters, a        *)
(* one-or-more repetition of a character class (\w+, \d+, [^"]+), the word  *)
(* boundary \b, or ^ under re.MULTILINE.  In every pattern of the script    *)
(* the element after a repetition cannot match a character of the class,    *)
(* so the greedy repetition never has to give characters back.              *)
(***************************************************************************)
Lit(s) == [t |-> "lit", s |-> s]

Plus(cls) == [t |-> "plus", s |-> cls]

WordB == [t |-> "wb", s |-> ""]

Bol == [t |-> "bol", s |-> ""]

Digits == {"0", "1", "2", "3", "4", "5", "6", "7", "8", "9"}

WordChars ==
    Digits \cup {"_"} \cup
    { "a", "b", "c", "d", "e", "f", "g", "h", "i", "j", "k", "l", "m",
      "n", "o", "p", "q", "r", "s", "t", "u", "v", "w", "x", "y", "z",
      "A", "B", "C", "D", "E", "F", "G", "H", "I", "J", "K", "L", "M",
      "N", "O", "P", "Q", "R", "S", "T", "U", "V", "W", "X", "Y", "Z" }

InClass(c, cls) ==
    CASE cls = "w" -> c \in WordChars
      [] cls = "d" -> c \in Digits
      [] cls = "notquote" -> c # "\""

IsWordAt(s, i) == i >= 1 /\ i <= Len(s) /\ CharAt(s, i) \in WordChars

\* the position after the longest run of cls characters that starts at i
RunEnd(s, i, cls) ==
    SetMin({j \in i..(Len(s) + 1) : j = Len(s) + 1 \/ ~InClass(CharAt(s, j), cls)})

RECURSIVE MatchEnd(_, _, _, _)
\* the position after the match of pat[k..] at position i of s; 0: no match
MatchEnd(s, i, pat, k) ==
    IF k > Len(pat) THEN i
    ELSE LET e == pat[k] IN
         CASE e.t = "lit" ->
                IF MatchAt(s, i, e.s) THEN MatchEnd(s, i + Len(e.s), pat, k + 1) ELSE 0
           [] e.t = "plus" ->
                IF i <= Len(s) /\ RunEnd(s, i, e.s) > i
                THEN MatchEnd(s, RunEnd(s, i, e.s), pat, k + 1) ELSE 0
           [] e.t = "wb" ->
                IF IsWordAt(s, i - 1) # IsWordAt(s, i) THEN MatchEnd(s, i, pat, k + 1) ELSE 0
           [] e.t = "bol" ->
                IF i = 1 \/ CharAt(s, i - 1) = "\n" THEN MatchEnd(s, i, pat, k + 1) ELSE 0

RECURSIVE SubFrom(_, _, _, _)
\* leftmost matches, not overlapping, each replaced; the scan resumes after a match
SubFrom(pat, repl, s, from) ==
    LET M == {i \in from..Len(s) : MatchEnd(s, i, pat, 1) # 0} IN
    IF M = {} THEN SubSeq(s, from, Len(s))
    ELSE LET i == SetMin(M) IN
         SubSeq(s, from, i - 1) \o repl \o SubFrom(pat, repl, s, MatchEnd(s, i, pat, 1))

re_sub(pat, repl, s) == SubFrom(pat, repl, s, 1)

RECURSIVE ApplyRulesOnce(_, _, _)
\* ApplyRules with every re.sub given count=1: only the first match is replaced
ApplyRulesOnce(rules, k, s) ==
    IF k > Len(rules) THEN s
    ELSE LET pat == rules[k][1]
             M == {i \in 1..Len(s) : MatchEnd(s, i, pat, 1) # 0}
             i == SetMin(M)
             t == IF M = {} THEN s
                  ELSE SubSeq(s, 1, i - 1) \o rules[k][2]
                       \o SubSeq(s, MatchEnd(s, i, pat, 1), Len(s))
         IN  ApplyRulesOnce(rules, k + 1, t)

RECURSIVE ApplyRules(_, _, _)
\* the re.sub calls of one branch, in the order written
ApplyRules(rules, k, s) ==
    IF k > Len(rules) THEN s
    ELSE ApplyRules(rules, k + 1, re_sub(rules[k][1], rules[k][2], s))

(***************************************************************************)
(* process_text_content(content, filepath), one operator per branch         *)
(***************************************************************************)
PyprojectRules ==
    << << <<Lit("name = \"template_core\"")>>,
          "name = \"{{cookiecutter.project_slug}}_core\"" >>,
       << <<Lit("name = \"template_tools\"")>>,
          "name = \"{{cookiecutter.project_slug}}_tools\"" >>,
       << <<Lit("name = \"template-tools\"")>>,
          "name = \"{{cookiecutter.project_slug}}-tools\"" >>,
       << <<Lit("template-core = \"template_core.cli:main\"")>>,
          "{{cookiecutter.project_slug}}-core = \"{{cookiecutter.project_slug}}_core.cli:main\"" >>,
       << <<Lit("template-tools = \"template_tools.cli:main\"")>>,
          "{{cookiecutter.project_slug}}-tools = \"{{cookiecutter.project_slug}}_tools.cli:main\"" >>,
       << <<Lit("authors = [\""), Plus("notquote"), Lit("\"]")>>,
          "authors = [\"{{cookiecutter.author_name}} <{{cookiecutter.author_email}}>\"]" >>,
       << <<Lit("template_tools = { path = \"../template_tools/\", develop = true }")>>,
          "{{cookiecutter.project_slug}}_tools = { path = \"../{{cookiecutter.project_slug}}_tools/\", develop = true }" >>,
       << <<Lit("description = \"Core functionality for the template project.\"")>>,
          "description = \"Core functionality for the {{cookiecutter.project_name}} project.\"" >>,
       << <<Lit("description = \"Shared utils for the template project.\"")>>,
          "description = \"Shared utils for the {{cookiecutter.project_name}} project.\"" >> >>

EnvRules ==
    << << <<Lit("IMAGE_NAME=template")>>, "IMAGE_NAME={{cookiecutter.docker_image_name}}" >>,
       << <<Lit("USER_NAME="), Plus("w")>>, "USER_NAME={{cookiecutter.user_name}}" >>,
       << <<Lit("IMAGE_VERSION=v"), Plus("d"), Lit("."), Plus("d"), Lit("."), Plus("d")>>,
          "IMAGE_VERSION={{cookiecutter.docker_image_version}}" >> >>

DevcontainerRules ==
    << << <<Lit("\"name\": \"template\"")>>, "\"name\": \"{{cookiecutter.project_name}}\"" >>,
       << <<Lit("\"image\": \"template:v"), Plus("d"), Lit("."), Plus("d"), Lit("."),
            Plus("d"), Lit("\"")>>,
          "\"image\": \"{{cookiecutter.docker_image_name}}:{{cookiecutter.docker_image_version}}\"" >>,
       << <<Lit("/home/klapaucius/")>>, "/home/{{cookiecutter.user_name}}/" >> >>

ComposeRules ==
    << << <<Lit("template-dev:")>>, "{{cookiecutter.docker_service_name}}:" >> >>

\* the README notice; the package emoji (U+1F4E6, one non-word character) is
\* written ~ here
NOTICE ==
    "> **~ Using this as a Cookiecutter Template?** See [COOKIECUTTER_README.md](COOKIECUTTER_README.md) for instructions on generating new projects from this template.\n\n"

ReadmeRules ==
    << << <<Lit(NOTICE)>>, "" >>,
       << <<Bol, Lit("# Template Project")>>, "# {{cookiecutter.project_name}}" >>,
       << <<Lit("git clone git@github.com:jackhjfission/template.git")>>,
          "git clone <your-repo-url>" >>,
       << <<Lit("cd template")>>, "cd {{cookiecutter.project_slug}}" >>,
       << <<WordB, Lit("template_core"), WordB>>, "{{cookiecutter.project_slug}}_core" >>,
       << <<WordB, Lit("template_tools"), WordB>>, "{{cookiecutter.project_slug}}_tools" >>,
       << <<WordB, Lit("template-tools"), WordB>>, "{{cookiecutter.project_slug}}-tools" >>,
       << <<Lit("A Python monorepo template")>>,
          "A Python monorepo for {{cookiecutter.project_name}}" >>,
       << <<WordB, Lit("klapaucius"), WordB>>, "{{cookiecutter.user_name}}" >>,
       << <<Lit("IMAGE_NAME=template")>>, "IMAGE_NAME={{cookiecutter.docker_image_name}}" >> >>

PythonRules ==
    << << <<WordB, Lit("template_core"), WordB>>, "{{cookiecutter.project_slug}}_core" >>,
       << <<WordB, Lit("template_tools"), WordB>>, "{{cookiecutter.project_slug}}_tools" >> >>

PreCommitConfigRules ==
    << << <<Lit("--config-file=template_core/mypy.ini")>>,
          "--config-file={{cookiecutter.project_slug}}_core/mypy.ini" >>,
       << <<Lit("--config-file=template_tools/mypy.ini")>>,
          "--config-file={{cookiecutter.project_slug}}_tools/mypy.ini" >> >>

process_shell(content) ==
    LET c1 == re_sub(<<Lit("/home/klapaucius/")>>, "/home/{{cookiecutter.user_name}}/", content)
    IN  IF Contains("${#", c1) THEN str_replace_all(c1, "${#", "{{ '${#' }}") ELSE c1

\* process_workflow with the package names rewritten inside the raw block
process_workflow_rewritten(content) ==
    IF Contains("${{", content)
    THEN "{% raw %}" \o ApplyRules(PythonRules, 1, content) \o "{% endraw %}"
    ELSE content

process_workflow(content) ==
    IF Contains("${{", content) THEN "{% raw %}" \o content \o "{% endraw %}" ELSE content

process_text_content(content, filepath) ==
    LET filename == Name(filepath) IN
    IF filename = "pyproject.toml" THEN ApplyRules(PyprojectRules, 1, content)
    ELSE IF filename = ".env" THEN ApplyRules(EnvRules, 1, content)
    ELSE IF filename = "devcontainer.json" THEN ApplyRules(DevcontainerRules, 1, content)
    ELSE IF filename = "compose.yaml" THEN ApplyRules(ComposeRules, 1, content)
    ELSE IF EndsWith(filename, ".sh") \/ filename = "pre-commit" THEN process_shell(content)
    ELSE IF filename = "README.md" THEN ApplyRules(ReadmeRules, 1, content)
    ELSE IF EndsWith(filename, ".py") THEN ApplyRules(PythonRules, 1, content)
    ELSE IF filename = ".pre-commit-config.yaml"
         THEN ApplyRules(PreCommitConfigRules, 1, content)
    ELSE IF EndsWith(filename, ".yml") \/ EndsWith(filename, ".yaml")
         THEN process_workflow(content)
    ELSE content

(***************************************************************************)
(* The file system.  fs maps each existing path (below ".") to its node;    *)
(* the root <<>> always exists and is a directory.  text is whether the     *)
(* bytes decode as UTF-8, exec the owner's executable bit.                  *)
(***************************************************************************)
DirNode == [kind |-> "dir", content |-> "", text |-> TRUE, exec |-> FALSE]

FileNode(content, text, exec) ==
    [kind |-> "file", content |-> content, text |-> text, exec |-> exec]

IsPrefix(a, b) == Len(a) <= Len(b) /\ SubSeq(b, 1, Len(a)) = a

Parent(p) == SubSeq(p, 1, Len(p) - 1)

\* Path.is_file / Path.is_dir / Path.exists
KindOf(f, p) == IF p = <<>> THEN "dir" ELSE IF p \in DOMAIN f THEN f[p].kind ELSE "none"

\* the outcome of a step: ok = FALSE is an exception nothing catches
Outcome(ok, f, o) == [ok |-> ok, fs |-> f, origin |-> o]

\* Path.mkdir(parents=True, exist_ok=True) on d.  by/src say, for the record
\* kept in origin, which step made the directory and for which source entry
Mkdirs(f, o, d, by, src) ==
    LET chain == {SubSeq(d, 1, k) : k \in 1..Len(d)}
        new == {a \in chain : a \notin DOMAIN f}
    IN  IF \E a \in chain : KindOf(f, a) = "file" THEN Outcome(FALSE, f, o)
        ELSE Outcome(TRUE,
                     [a \in new |-> DirNode] @@ f,
                     [a \in new |-> [by |-> IF a = d THEN by ELSE "parents", src |-> src]] @@ o)

\* shutil.copy2(source, dest): into dest when dest is a directory; bytes and
\* mode are those of the source
copy2(f, o, source, dest) ==
    LET target == IF KindOf(f, dest) = "dir" THEN dest \o <<Name(source)>> ELSE dest
    IN  IF KindOf(f, target) = "dir" THEN Outcome(FALSE, f, o)
        ELSE Outcome(TRUE,
                     (target :> f[source]) @@ f,
                     (target :> [by |-> "copy", src |-> source]) @@ o)

copy_and_process_file(f, o, source, dest) ==
    LET m == Mkdirs(f, o, Parent(dest), "parents", source) IN
    IF ~m.ok THEN m
    ELSE IF ~f[source].text \/ KindOf(m.fs, dest) = "dir"
         THEN copy2(m.fs, m.origin, source, dest)
    ELSE LET old_exec == KindOf(m.fs, dest) = "file" /\ m.fs[dest].exec
             node == FileNode(process_text_content(f[source].content, source), TRUE,
                              old_exec \/ f[source].exec)
         IN  Outcome(TRUE,
                     (dest :> node) @@ m.fs,
                     (dest :> [by |-> "copy", src |-> source]) @@ m.origin)

\* the body of the loop of copy_directory_structure for one item
CopyItem(f, o, item) ==
    IF should_exclude(item, KindOf(f, item)) THEN Outcome(TRUE, f, o)
    ELSE LET dest_path == get_template_path(item) IN
         IF KindOf(f, item) = "file" THEN copy_and_process_file(f, o, item, dest_path)
         ELSE IF KindOf(f, item) = "dir" THEN Mkdirs(f, o, dest_path, "mkdir", item)
         ELSE Outcome(TRUE, f, o)

COOKIECUTTER_JSON ==
    "{\n  \"project_slug\": \"myproject\",\n  \"project_name\": \"My Project\",\n  \"author_name\": \"Your Name\",\n  \"author_email\": \"you@example.com\",\n  \"docker_image_name\": \"myproject\",\n  \"docker_service_name\": \"myproject-dev\",\n  \"user_name\": \"devuser\",\n  \"docker_image_version\": \"v0.0.0\"\n}"

gitignore_content ==
    "# Python\n__pycache__/\n*.py[cod]\n*$py.class\n*.so\n.Python\n.venv/\nvenv/\nENV/\nenv/\n.pytest_cache/\n.mypy_cache/\n.ruff_cache/\n.coverage\nhtmlcov/\n*.log\n\n# Poetry\npoetry.lock\n\n# IDEs\n.vscode/\n.idea/\n*.swp\n*.swo\n*~\n\n# OS\n.DS_Store\nThumbs.db\n\n# Project specific\nprototyping/\nscratchpads/\n\n# user specific\nmypy.ini\n"

\* open(path, 'w') and write: a new file is not executable, an existing one
\* keeps its mode
WriteText(f, o, path, content) ==
    IF KindOf(f, path) = "dir" \/ KindOf(f, Parent(path)) # "dir" THEN Outcome(FALSE, f, o)
    ELSE Outcome(TRUE,
                 (path :> FileNode(content, TRUE, KindOf(f, path) = "file" /\ f[path].exec)) @@ f,
                 (path :> [by |-> "emit", src |-> <<>>]) @@ o)

(***************************************************************************)
(* source.rglob("*") (pathlib of CPython 3.8 to 3.11).  The generator walks *)
(* the directories depth first.  When it reaches a directory it scans it    *)
(* (os.scandir, read to the end at once) and yields the entries found, one  *)
(* per iteration of the caller's loop; when they are used up it scans the   *)
(* directory again and descends into each subdirectory found.  The order    *)
(* of the entries of a scan is the operating system's.  A frame of stack    *)
(* is a directory being walked: the entries still to yield, and, once the   *)
(* second scan is made, the subdirectories still to descend into.           *)
(***************************************************************************)
Children(f, d) == {p \in DOMAIN f : Parent(p) = d}

NewFrame(f, d) == [dir |-> d, items |-> Children(f, d), subdirs |-> {}, scanned |-> FALSE]

RECURSIVE Resume(_, _)
\* the generator runs until it has an entry to yield or a subdirectory to
\* choose: the second scan of a directory whose entries are used up, the
\* return from a directory with nothing left
Resume(f, st) ==
    IF st = <<>> THEN st
    ELSE LET n == Len(st)
             top == st[n]
         IN  IF top.items # {} THEN st
             ELSE IF ~top.scanned
                  THEN Resume(f, [st EXCEPT ![n] =
                         [top EXCEPT !.subdirs = {c \in Children(f, top.dir) : f[c].kind = "dir"},
                                     !.scanned = TRUE]])
             ELSE IF top.subdirs # {} THEN st
             ELSE Resume(f, SubSeq(st, 1, n - 1))

\* the state of a walk: the file system, the record of who made what, the
\* generator, and whether an exception ended it
Walk(ok, f, o, st) == [ok |-> ok, fs |-> f, origin |-> o, stack |-> st]

Top(st) == st[Len(st)]

\* the loop body runs for the yielded item, then the generator resumes
StepItem(w, item) ==
    LET r == CopyItem(w.fs, w.origin, item)
        n == Len(w.stack)
        st == [w.stack EXCEPT ![n] = [@ EXCEPT !.items = @ \ {item}]]
    IN  IF r.ok THEN Walk(TRUE, r.fs, r.origin, Resume(r.fs, st))
        ELSE Walk(FALSE, r.fs, r.origin, st)

\* the generator descends into a subdirectory and scans it
StepEnter(w, sub) ==
    LET n == Len(w.stack)
        st == [w.stack EXCEPT ![n] = [@ EXCEPT !.subdirs = @ \ {sub}]]
    IN  Walk(TRUE, w.fs, w.origin, Resume(w.fs, Append(st, NewFrame(w.fs, sub))))

\* rglob("*") is called on the root
StartWalk(f, o) == Walk(TRUE, f, o, Resume(f, <<NewFrame(f, <<>>)>>))

(***************************************************************************)
(* main(): the source trees it is run on                                    *)
(***************************************************************************)
SLUG_CORE == "{{cookiecutter.project_slug}}_core"

Leaf(path, node) == [path |-> path, node |-> node]

\* the leaf entries a source tree is drawn from; the directories above a
\* leaf come with it
Catalog ==
    { Leaf(<<"template_core", "cli.py">>, FileNode("import template_core\n", TRUE, FALSE)),
      Leaf(<<SLUG_CORE, "cli.py">>, FileNode("x = 1\n", TRUE, TRUE)),
      Leaf(<<"template_core">>, FileNode("template_core", FALSE, FALSE)),
      Leaf(<<SLUG_CORE>>, DirNode),
      Leaf(<<"sub", ".git">>, FileNode("gitdir: ../.git/modules/sub\n", TRUE, FALSE)),
      Leaf(<<"scratchpads", ".git", "HEAD">>, FileNode("ref: refs/heads/main\n", TRUE, FALSE)),
      Leaf(<<"scratchpads", "notes.txt">>, FileNode("notes\n", TRUE, FALSE)),
      Leaf(<<"scratchpads", ".gitignore">>, FileNode("*\n", TRUE, FALSE)),
      Leaf(<<"template_core", "scratchpads", ".gitignore">>, FileNode("*\n", TRUE, FALSE)),
      Leaf(<<SLUG_CORE, "scratchpads", ".gitignore", ".gitignore">>,
           FileNode("!.gitignore\n", TRUE, FALSE)),
      Leaf(<<".gitignore", "scratchpads", ".gitignore">>, FileNode("*\n", TRUE, FALSE)),
      Leaf(<<"build.pyc", "x.txt">>, FileNode("x\n", TRUE, FALSE)),
      Leaf(<<"venv", "lib.py">>, FileNode("import os\n", TRUE, FALSE)),
      Leaf(<<"generate_cookiecutter.py">>, FileNode("import re\n", TRUE, TRUE)),
      Leaf(<<"cookiecutter-output", "{{cookiecutter.project_slug}}", "old.txt">>,
           FileNode("old\n", TRUE, FALSE)),
      Leaf(<<"cookiecutter-output">>, FileNode("", TRUE, FALSE)) }

\* no leaf lies at or below another leaf
Compatible(L) ==
    \A a \in L : \A b \in L : a # b => ~IsPrefix(a.path, b.path)

TreeOf(L) ==
    LET leafAt(p) == CHOOSE l \in L : l.path = p
        paths == UNION {{SubSeq(l.path, 1, k) : k \in 1..Len(l.path)} : l \in L}
    IN  [p \in paths |-> IF \E l \in L : l.path = p THEN leafAt(p).node ELSE DirNode]

SourceTrees ==
    {TreeOf(L) : L \in {M \in SUBSET Catalog : Cardinality(M) <= MaxEntries /\ Compatible(M)}}

NoFs == [p \in {} |-> DirNode]

NoOrigin == [p \in {} |-> [by |-> "", src |-> <<>>]]

Init ==
    /\ fs \in SourceTrees
    /\ src0 = fs
    /\ pc = "start"
    /\ stack = <<>>
    /\ origin = NoOrigin
    /\ arg = <<>>
    /\ ret = <<>>

(***************************************************************************)
(* main(), step by step                                                     *)
(***************************************************************************)
\* RmtreeOutput with the rmtree left out
RmtreeOutputKept(f) == Outcome(KindOf(f, OUTPUT_DIR) # "file", f, NoOrigin)

\* if OUTPUT_DIR.exists(): shutil.rmtree(OUTPUT_DIR)
RmtreeOutput(f) ==
    IF KindOf(f, OUTPUT_DIR) = "file" THEN Outcome(FALSE, f, NoOrigin)
    ELSE Outcome(TRUE, [p \in {q \in DOMAIN f : ~IsPrefix(OUTPUT_DIR, q)} |-> f[p]], NoOrigin)

RemoveOutput ==
    /\ pc = "start"
    /\ LET r == RmtreeOutput(fs) IN
         /\ fs' = r.fs
         /\ pc' = IF r.ok THEN "mkdir" ELSE "crashed"
    /\ UNCHANGED <<stack, origin, src0, arg, ret>>

\* OUTPUT_DIR.mkdir(parents=True, exist_ok=True)
MakeOutputDir ==
    /\ pc = "mkdir"
    /\ LET r == Mkdirs(fs, origin, OUTPUT_DIR, "emit", <<>>) IN
         /\ fs' = r.fs
         /\ origin' = r.origin
         /\ pc' = IF r.ok THEN "json" ELSE "crashed"
    /\ UNCHANGED <<stack, src0, arg, ret>>

\* create_cookiecutter_json(); then copy_directory_structure is entered and
\* its for statement calls source.rglob("*")
CreateCookiecutterJson ==
    /\ pc = "json"
    /\ LET r == WriteText(fs, origin, OUTPUT_DIR \o <<"cookiecutter.json">>, COOKIECUTTER_JSON) IN
         /\ fs' = r.fs
         /\ origin' = r.origin
         /\ pc' = IF r.ok THEN "walk" ELSE "crashed"
         /\ stack' = IF r.ok THEN StartWalk(r.fs, r.origin).stack ELSE <<>>
    /\ UNCHANGED <<src0, arg, ret>>

\* one iteration of the loop of copy_directory_structure, on an entry of the
\* directory being walked
ProcessItem(item) ==
    /\ pc = "walk"
    /\ stack # <<>>
    /\ item \in Top(stack).items
    /\ LET w == StepItem(Walk(TRUE, fs, origin, stack), item) IN
         /\ fs' = w.fs
         /\ origin' = w.origin
         /\ stack' = w.stack
         /\ pc' = IF w.ok THEN "walk" ELSE "crashed"
    /\ UNCHANGED <<src0, arg, ret>>

\* the generator descends into a subdirectory
EnterDir(sub) ==
    /\ pc = "walk"
    /\ stack # <<>>
    /\ Top(stack).items = {}
    /\ sub \in Top(stack).subdirs
    /\ stack' = StepEnter(Walk(TRUE, fs, origin, stack), sub).stack
    /\ UNCHANGED <<fs, pc, origin, src0, arg, ret>>

\* rglob is exhausted: copy_directory_structure returns
FinishWalk ==
    /\ pc = "walk"
    /\ stack = <<>>
    /\ pc' = "gitignore"
    /\ UNCHANGED <<fs, stack, origin, src0, arg, ret>>

\* create_gitignore()
CreateGitignore ==
    /\ pc = "gitignore"
    /\ LET m == Mkdirs(fs, origin, TEMPLATE_ROOT, "emit", <<>>)
           r == IF m.ok
                THEN WriteText(m.fs, m.origin, TEMPLATE_ROOT \o <<".gitignore">>, gitignore_content)
                ELSE m
       IN  /\ fs' = r.fs
           /\ origin' = r.origin
           /\ pc' = IF r.ok THEN "done" ELSE "crashed"
    /\ UNCHANGED <<stack, src0, arg, ret>>

Next ==
    \/ RemoveOutput
    \/ MakeOutputDir
    \/ CreateCookiecutterJson
    \/ \E item \in UNION {f.items : f \in {stack[k] : k \in DOMAIN stack}} : ProcessItem(item)
    \/ \E f \in {stack[k] : k \in DOMAIN stack} : \E sub \in f.subdirs : EnterDir(sub)
    \/ FinishWalk
    \/ CreateGitignore

Spec == Init /\ [][Next]_vars

(***************************************************************************)
(* should_exclude and get_template_path called on their own, on every path  *)
(* of up to MaxDepth segments over SegmentNames, as a file and as a         *)
(* directory.                                                               *)
(***************************************************************************)
SegmentNames ==
    { "template_core", "template_tools", "template_core_old", "my_template_tools",
      ".git", ".github", ".gitignore", "scratchpads", "mod.pyc", "notes.txt" }

PathsUpTo(n) == UNION {[1..k -> SegmentNames] : k \in 1..n}

InitPath ==
    /\ arg \in [path : PathsUpTo(MaxDepth), kind : {"file", "dir"}]
    /\ ret = <<>>
    /\ pc = "path"
    /\ fs = NoFs
    /\ src0 = NoFs
    /\ stack = <<>>
    /\ origin = NoOrigin

CallShouldExclude ==
    /\ pc = "path"
    /\ ret = <<>>
    /\ ret' = [fn |-> "should_exclude", val |-> should_exclude(arg.path, arg.kind)]
    /\ UNCHANGED <<fs, pc, stack, origin, src0, arg>>

CallGetTemplatePath ==
    /\ pc = "path"
    /\ ret = <<>>
    /\ ret' = [fn |-> "get_template_path", val |-> get_template_path(arg.path)]
    /\ UNCHANGED <<fs, pc, stack, origin, src0, arg>>

NextPath == CallShouldExclude \/ CallGetTemplatePath

SpecPath == InitPath /\ [][NextPath]_vars

(***************************************************************************)
(* process_text_content called on a content, and again on its own output.   *)
(* A content is up to MaxFrags fragments, one after the other.              *)
(***************************************************************************)
Fragments ==
    { "x", "\n", "${#", "${{ a }}", "template_core", "template_tools\n", "_",
      "/home/klapaucius/", "template-dev:", "--config-file=template_core/mypy.ini",
      "git clone git@github.com:jackhjfission/template.git",
      SubSeq(NOTICE, 2, Len(NOTICE)), "USER_NAME=alice", "IMAGE_VERSION=v1.2.3" }

RECURSIVE Concat(_, _)
Concat(q, k) == IF k > Len(q) THEN "" ELSE q[k] \o Concat(q, k + 1)

Contents == {Concat(q, 1) : q \in UNION {[1..k -> Fragments] : k \in 0..MaxFrags}}

FilePaths ==
    { <<"pyproject.toml">>, <<".env">>, <<".devcontainer", "devcontainer.json">>,
      <<"compose.yaml">>, <<"run.sh">>, <<".githooks", "pre-commit">>, <<"README.md">>,
      <<"template_core", "cli.py">>, <<".pre-commit-config.yaml">>,
      <<".github", "workflows", "ci.yml">>, <<"deploy.yaml">>, <<"notes.txt">> }

InitText ==
    /\ arg \in [content : Contents, filepath : FilePaths]
    /\ ret = <<>>
    /\ pc = "text"
    /\ fs = NoFs
    /\ src0 = NoFs
    /\ stack = <<>>
    /\ origin = NoOrigin

\* ret[1] = process_text_content(content, filepath), ret[2] the same of ret[1]
Transform ==
    /\ pc = "text"
    /\ Len(ret) < 2
    /\ ret' = Append(ret, process_text_content(IF ret = <<>> THEN arg.content ELSE ret[Len(ret)],
                                               arg.filepath))
    /\ UNCHANGED <<fs, pc, stack, origin, src0, arg>>

NextText == Transform

SpecText == InitText /\ [][NextText]_vars

(***************************************************************************)
(* The walk in one fixed order, for comparison: whenever there is a choice  *)
(* (which entry of a scan comes next, which subdirectory), the entry CHOOSE *)
(* picks.  It is one of the runs of ProcessItem and EnterDir.               *)
(***************************************************************************)
RECURSIVE RunFixedOrder(_)
RunFixedOrder(w) ==
    IF ~w.ok \/ w.stack = <<>> THEN w
    ELSE IF Top(w.stack).items # {}
         THEN RunFixedOrder(StepItem(w, CHOOSE item \in Top(w.stack).items : TRUE))
    ELSE RunFixedOrder(StepEnter(w, CHOOSE sub \in Top(w.stack).subdirs : TRUE))

\* main() on the tree f0 up to the return of copy_directory_structure, the
\* walk taken in the fixed order
ReferenceCopy(f0) ==
    LET a == RmtreeOutput(f0)
        b == Mkdirs(a.fs, a.origin, OUTPUT_DIR, "emit", <<>>)
        c == WriteText(b.fs, b.origin, OUTPUT_DIR \o <<"cookiecutter.json">>, COOKIECUTTER_JSON)
    IN  RunFixedOrder(StartWalk(c.fs, c.origin))

(***************************************************************************)
(* Properties                                                               *)
(***************************************************************************)
Returned(fn) == pc = "path" /\ ret # <<>> /\ ret.fn = fn

\* the paths of the output tree made by copy_directory_structure
Copied == {p \in DOMAIN origin : origin[p].by # "emit"}

\* the part of an output path below the template root
BelowRoot(p) == SubSeq(p, Len(TEMPLATE_ROOT) + 1, Len(p))

\* C1: get_template_path returns the template root followed by as many
\* segments as the source path has, in the same order: a segment that is
\* 'template_core' or 'template_tools' replaced by its parameterized name,
\* wherever it occurs, and every other segment as it was, also one that only
\* contains a key
C1_WholeSegmentRenames ==
    Returned("get_template_path") =>
        LET out == ret.val
            src == arg.path
        IN  /\ Len(out) = Len(src) + 2
            /\ out[1] = "cookiecutter-output"
            /\ out[2] = "{{cookiecutter.project_slug}}"
            /\ \A i \in 1..Len(src) :
                 out[i + 2] = IF src[i] = "template_core"
                              THEN "{{cookiecutter.project_slug}}_core"
                              ELSE IF src[i] = "template_tools"
                              THEN "{{cookiecutter.project_slug}}_tools"
                              ELSE src[i]

C1_Witness ==
    /\ Returned("get_template_path")
    /\ arg.path = <<"template_core", "template_core", "template_core_old">>
    /\ ret.val[5] = "template_core_old"

\* C2: whatever the copy made in the output tree has no '.git' segment in
\* its path: nothing beneath a '.git' (also one inside 'scratchpads') is in
\* the output, and no '.git' entry was copied
C2_NoGitInOutput ==
    \A p \in Copied : ~InParts(".git", p)

\* C3: for a file with a 'scratchpads' segment and no '.git' segment
\* should_exclude is false exactly when the name is '.gitignore'; the files
\* under a 'scratchpads' directory of the output are all named '.gitignore',
\* and each is at the rewritten path of the source file it was copied from
C3_ScratchpadsKeepGitignore ==
    /\ \A p \in DOMAIN fs :
         (fs[p].kind = "file" /\ InParts("scratchpads", p) /\ ~InParts(".git", p))
            => (should_exclude(p, "file") <=> Name(p) # ".gitignore")
    /\ \A p \in DOMAIN fs :
         (fs[p].kind = "file" /\ IsPrefix(TEMPLATE_ROOT, p)
            /\ InParts("scratchpads", BelowRoot(p)))
            => /\ Name(p) = ".gitignore"
               /\ p \in Copied
               /\ p = get_template_path(origin[p].src)

\* C3, the part that holds: the exclusion test, and the names of the files
\* under the 'scratchpads' directories of the output
C3_NamesOnly ==
    /\ \A p \in DOMAIN fs :
         (fs[p].kind = "file" /\ InParts("scratchpads", p) /\ ~InParts(".git", p))
            => (should_exclude(p, "file") <=> Name(p) # ".gitignore")
    /\ \A p \in DOMAIN fs :
         (fs[p].kind = "file" /\ IsPrefix(TEMPLATE_ROOT, p)
            /\ InParts("scratchpads", BelowRoot(p)))
            => Name(p) = ".gitignore"

\* C4: when copy_directory_structure has returned, a source entry that
\* should_exclude excludes has left nothing in the output: neither its
\* rewritten path nor anything beneath it
C4_ExcludedLeavesNoTrace ==
    pc = "gitignore" =>
        \A s \in DOMAIN src0 :
            (~IsPrefix(OUTPUT_DIR, s) /\ should_exclude(s, src0[s].kind))
                => \A p \in DOMAIN fs : ~IsPrefix(get_template_path(s), p)

\* C5: the tree copy_directory_structure leaves does not depend on the order
\* of the walk: it is the tree the fixed order leaves
C5_OrderIndependent ==
    pc = "gitignore" => (ReferenceCopy(src0).ok /\ fs = ReferenceCopy(src0).fs)

\* C6 as stated: for a file name ending in .yml or .yaml and a content with
\* '${{', process_text_content returns '{% raw %}' + content + '{% endraw %}'
C6_EveryYamlWrapped ==
    (/\ pc = "text"
     /\ Len(ret) >= 1
     /\ EndsWith(Name(arg.filepath), ".yml") \/ EndsWith(Name(arg.filepath), ".yaml")
     /\ Contains("${{", arg.content))
        => ret[1] = "{% raw %}" \o arg.content \o "{% endraw %}"

\* C6 amended: the same for every file name ending in .yml or .yaml other
\* than 'compose.yaml' and '.pre-commit-config.yaml', which have rules of
\* their own and are not wrapped
C6_WorkflowWrapped ==
    (/\ pc = "text"
     /\ Len(ret) >= 1
     /\ EndsWith(Name(arg.filepath), ".yml") \/ EndsWith(Name(arg.filepath), ".yaml")
     /\ Name(arg.filepath) \notin {"compose.yaml", ".pre-commit-config.yaml"}
     /\ Contains("${{", arg.content))
        => ret[1] = "{% raw %}" \o arg.content \o "{% endraw %}"

C6_Witness ==
    /\ pc = "text"
    /\ Len(ret) >= 1
    /\ Name(arg.filepath) = "ci.yml"
    /\ arg.content = "${{ a }}template_core"
    /\ ret[1] = "{% raw %}${{ a }}template_core{% endraw %}"

LiteralRuleFile(name) ==
    \/ EndsWith(name, ".py")
    \/ EndsWith(name, ".sh")
    \/ name \in {"pre-commit", "compose.yaml", ".pre-commit-config.yaml", "README.md"}

\* C7 as stated: process_text_content applied to its own output changes
\* nothing, for '*.py', '*.sh', 'pre-commit', 'compose.yaml',
\* '.pre-commit-config.yaml' and 'README.md'
C7_IdempotentLiteralRules ==
    (pc = "text" /\ Len(ret) = 2 /\ LiteralRuleFile(Name(arg.filepath)))
        => ret[2] = ret[1]

\* C7 amended: process_text_content applied to its own output changes
\* nothing, for '*.py', 'compose.yaml' and '.pre-commit-config.yaml'
C7_IdempotentPyComposePreCommit ==
    (/\ pc = "text"
     /\ Len(ret) = 2
     /\ \/ EndsWith(Name(arg.filepath), ".py")
        \/ Name(arg.filepath) \in {"compose.yaml", ".pre-commit-config.yaml"})
        => ret[2] = ret[1]

C7_Witness ==
    /\ pc = "text"
    /\ Len(ret) = 2
    /\ Name(arg.filepath) = "cli.py"
    /\ arg.content = "template_tools\ntemplate_tools\n"
    /\ ret[1] = "{{cookiecutter.project_slug}}_tools\n{{cookiecutter.project_slug}}_tools\n"
    /\ ret[2] = ret[1]

\* C8: a path whose final segment a member of EXCLUDE_PATTERNS matches is
\* excluded, as a regular file and as a directory
C8_ExcludedWhateverKind ==
    (/\ Returned("should_exclude")
     /\ \E pattern \in EXCLUDE_PATTERNS :
            \/ Name(arg.path) = pattern
            \/ Contains("*", pattern) /\ PathMatch(arg.path, pattern))
        => ret.val = TRUE

\* C9: when main has run to its end, the '.gitignore' at the template root
\* holds the fixed ignore rules, cookiecutter.json holds COOKIECUTTER_CONFIG,
\* and everything in the output directory was made by this run
C9_FreshOutput ==
    pc = "done" =>
        /\ fs[TEMPLATE_ROOT \o <<".gitignore">>].kind = "file"
        /\ fs[TEMPLATE_ROOT \o <<".gitignore">>].content = gitignore_content
        /\ fs[OUTPUT_DIR \o <<"cookiecutter.json">>].kind = "file"
        /\ fs[OUTPUT_DIR \o <<"cookiecutter.json">>].content = COOKIECUTTER_JSON
        /\ \A p \in DOMAIN fs : IsPrefix(OUTPUT_DIR, p) => p \in DOMAIN origin

C9_Witness ==
    /\ pc = "done"
    /\ (TEMPLATE_ROOT \o <<"old.txt">>) \in DOMAIN src0
    /\ (TEMPLATE_ROOT \o <<"old.txt">>) \notin DOMAIN fs

\* C10: nothing the copy made in the output tree was copied from an entry
\* under 'cookiecutter-output', nor from generate_cookiecutter.py
C10_OutputNotCopied ==
    \A p \in Copied :
        /\ ~IsPrefix(OUTPUT_DIR, origin[p].src)
        /\ Name(origin[p].src) # "generate_cookiecutter.py"

====
